---- MODULE Spec2Model ----
(***************************************************************************)
(* Paragon Server (src/main.go): the bounded-concurrency dispatch layer.   *)
(* One resident network (NN) is driven by three JSON endpoints: /infer,    *)
(* /infer-batch and /blast.  A buffered channel (sem) admits at most       *)
(* cap(sem) submissions, a mutex (gpuMu) serialises Forward/ExtractOutput, *)
(* an atomic counter (inflight) is read by /health and by the responses.   *)
(*                                                                         *)
(* The load test page (app.js) is the variable ui: its run pool, the        *)
(* latencies it collects and the summary percentiles makes of them.        *)
(*                                                                         *)
(* Every goroutine is a process with a program counter; one action is one  *)
(* step between two operations on shared state (channel, mutex, counter,   *)
(* WaitGroup, the network, the clock).  Statements on locals are folded    *)
(* into the step that precedes them.                                       *)
(*                                                                         *)
(* Numbers: pixel and score values are integers (0 is 0.0, One is 1.0);    *)
(* time is a logical clock `now`; a Forward needs `tick` ticks of it and    *)
(* nothing else takes time.  Goroutines that are inside Forward at the     *)
(* same moment progress together with one tick (ClockTick).  Spec does not *)
(* observe time (tick = 0); TimedSpec gives every Forward ForwardTicks.    *)
(***************************************************************************)
EXTENDS Integers, Sequences, FiniteSets, TLC

\* ------------------------------------------------------------------ bounds
\* Largest value of the -maxgpu flag explored (0..MaxK).
MaxK == 2
\* Largest accepted burst size explored (the code accepts up to BlastLimit).
MaxBurst == 2
\* Largest number of images in one /infer-batch request.
MaxBatch == 2
\* Input shape and class count of the mounted model (28 x 28 x 10 for MNIST).
InputW == 2
InputH == 2
ClassCount == 3
\* Ticks of the logical clock one Forward takes.
ForwardTicks == 1
\* Largest class score in the output vectors argmax64 is explored on.
MaxScore == 2
\* Largest request count and largest parallelism entered in the load test page.
MaxRun == 3
MaxPool == 2
\* Longest sample sequence percentiles is explored on (samples 10, 20, ...).
MaxSamples == 5

\* ------------------------------------------------------- program constants
\* handleBlast: n must be 1..2000.
BlastLimit == 2000
\* The pixel value 1.0 (reshape clamps to [0,1]).
One == 1

\* The concurrently served connections: one per endpoint; a burst adds up to
\* MaxBurst goroutines of its own.
InferHandlers == {"infer"}
BatchHandlers == {"batch"}
BlastHandlers == {"blast"}
BlastTasks == BlastHandlers \X (0 .. MaxBurst - 1)

NPix == InputW * InputH

\* ------------------------------------------------------------ request data
FlatOf(n) == [i \in 1 .. n |-> ((i - 1) % 4) - 1]
RowOf(w, v) == [c \in 1 .. w |-> v]
ImageOf(h, w, v) == [r \in 1 .. h |-> RowOf(w, v)]
GoodImage == ImageOf(InputH, InputW, One)
HotImage == ImageOf(InputH, InputW, One + 1)
TallImage == ImageOf(InputH + 1, InputW, One)
WideImage == ImageOf(InputH, InputW + 1, One)
RaggedImage == [r \in 1 .. InputH |-> IF r = 1 THEN RowOf(InputW, One) ELSE RowOf(InputW + 1, One)]

FlatChoices == {FlatOf(0), FlatOf(NPix - 1), FlatOf(NPix), FlatOf(NPix + 1)}
ImageChoices == {HotImage, TallImage, WideImage, RaggedImage}

\* inferReq: Input (flattened) and Image (h x w); parsed is BodyParser's verdict.
InferReqs ==
    {[parsed |-> FALSE, input |-> <<>>, image |-> <<>>]}
    \cup {[parsed |-> TRUE, input |-> f, image |-> <<>>] : f \in FlatChoices}
    \cup {[parsed |-> TRUE, input |-> <<>>, image |-> m] : m \in ImageChoices}
    \cup {[parsed |-> TRUE, input |-> FlatOf(NPix - 1), image |-> GoodImage]}

\* batchReq: Batch (N x flattened) and Images (N x h x w).
BatchReqs ==
    {[parsed |-> FALSE, batch |-> <<>>, images |-> <<>>],
     [parsed |-> TRUE, batch |-> <<>>, images |-> <<>>],
     [parsed |-> TRUE, batch |-> <<>>, images |-> <<TallImage>>],
     [parsed |-> TRUE, batch |-> [i \in 1 .. MaxBatch |-> IF i = MaxBatch THEN FlatOf(NPix - 1) ELSE FlatOf(NPix)],
      images |-> <<>>],
     [parsed |-> TRUE, batch |-> <<>>,
      images |-> [i \in 1 .. MaxBatch |-> IF i = MaxBatch THEN RaggedImage ELSE GoodImage]]}
    \cup {[parsed |-> TRUE, batch |-> [i \in 1 .. n |-> FlatOf(NPix)], images |-> <<>>] : n \in 1 .. MaxBatch}

\* blastReq: N and Input.
BurstSizes == {-1, 0} \cup (1 .. MaxBurst) \cup {BlastLimit + 1}
BlastReqs ==
    {[parsed |-> FALSE, n |-> 0, input |-> <<>>]}
    \cup {[parsed |-> TRUE, n |-> k, input |-> FlatOf(NPix)] : k \in BurstSizes}
    \cup {[parsed |-> TRUE, n |-> 1, input |-> FlatOf(NPix + 1)]}

\* The requests of well-behaved clients, as the load test page sends them
\* (a flattened input of the right length; bursts of every accepted size),
\* and one rejected request per endpoint.
CoreInferReqs ==
    {[parsed |-> TRUE, input |-> FlatOf(NPix), image |-> <<>>],
     [parsed |-> TRUE, input |-> FlatOf(NPix - 1), image |-> <<>>]}
CoreBatchReqs ==
    {[parsed |-> TRUE, batch |-> <<>>, images |-> <<>>]}
    \cup {[parsed |-> TRUE, batch |-> [i \in 1 .. n |-> FlatOf(NPix)], images |-> <<>>] : n \in 1 .. MaxBatch}
CoreBlastReqs ==
    {[parsed |-> TRUE, n |-> k, input |-> FlatOf(NPix)] : k \in 0 .. MaxBurst}

\* Every shape of request, with bursts of one.
AnyInferReqs == InferReqs
AnyBatchReqs == BatchReqs
AnyBlastReqs == {r \in BlastReqs : r.n <= 1 \/ r.n > MaxBurst}

\* What ExtractOutput can hand back: the class scores (a tie between the
\* classes 1 and 2, 0-based), or nothing when the resource failed.
GoodOutput == [i \in 1 .. ClassCount |-> IF i \in {2, 3} THEN 5 ELSE 2]
NoOutput == <<>>
OutputChoices == {GoodOutput, NoOutput}

\* Every output vector of up to ClassCount + 1 scores in 0..MaxScore.
ScoreVectors == UNION {[1 .. n -> 0 .. MaxScore] : n \in 0 .. ClassCount + 1}

\* ----------------------------------------------------------------- helpers
\* reshape: the length check, then row-major copy with the clamp to [0,1].
reshapeClamp(v) ==
    LET v1 == IF v < 0 THEN 0 ELSE v
    IN  IF v1 > One THEN One ELSE v1

reshapeLenOK(flat) == Len(flat) = InputW * InputH

reshape(flat) ==
    IF ~reshapeLenOK(flat)
    THEN [ok |-> FALSE, img |-> <<>>]
    ELSE [ok |-> TRUE,
          img |-> [r \in 1 .. InputH |-> [c \in 1 .. InputW |-> reshapeClamp(flat[(r - 1) * InputW + c])]]]

\* normalizeInput: the image when one is given (checked on its row count and
\* on the length of its first row), else the reshaped input, else an error.
normalizeInput(req) ==
    IF Len(req.image) > 0
    THEN IF Len(req.image) # InputH \/ Len(req.image[1]) # InputW
         THEN [ok |-> FALSE, img |-> <<>>]
         ELSE [ok |-> TRUE, img |-> req.image]
    ELSE IF Len(req.input) > 0
         THEN reshape(req.input)
         ELSE [ok |-> FALSE, img |-> <<>>]

\* argmax64: -1 on an empty vector, else the 0-based index of the first
\* strict maximum.  Go's v[i] is v[i + 1] here.
\* The comparison of the loop: if v[i] > best.
ScoreBeatsOrTies(x, best) == x >= best
ScoreBeats(x, best) == x > best

RECURSIVE argmaxLoop(_, _, _, _)
argmaxLoop(v, i, best, bestI) ==
    IF i >= Len(v)
    THEN bestI
    ELSE IF ScoreBeats(v[i + 1], best)
         THEN argmaxLoop(v, i + 1, v[i + 1], i)
         ELSE argmaxLoop(v, i + 1, best, bestI)

argmax64(v) == IF Len(v) = 0 THEN -1 ELSE argmaxLoop(v, 1, v[1], 0)

\* out[idx] panics (index out of range) unless 0 <= idx < len(out).
IndexPanics(out, idx) == idx < 0 \/ idx >= Len(out)

\* inferResp; `task` is the tag of the goroutine that built it (NoTask for the
\* zero value make([]inferResp, n) fills the slots with).
NoTask == 0 - 1
ZeroResp == [top_index |-> 0, top_score |-> 0, probs |-> <<>>, latency_ms |-> 0,
             queued_ms |-> 0, inflight |-> 0, task |-> NoTask]
MakeResp(out, idx, lat, q, infl, tag) ==
    [top_index |-> idx, top_score |-> out[idx + 1], probs |-> out, latency_ms |-> lat,
     queued_ms |-> q, inflight |-> infl, task |-> tag]

\* ------------------------------------------------------- load test page
\* percentiles (app.js): a sorted copy, pick(p) = a[max(0, min(n - 1,
\* floor(p * (n - 1))))] with p in hundredths, the mean as sum / n, the max as
\* the last element.  On an empty array the picks and the max are undefined
\* and the mean is NaN.
RECURSIVE insertAsc(_, _)
insertAsc(a, x) ==
    IF Len(a) = 0 THEN <<x>>
    ELSE IF x - a[1] < 0 THEN <<x>> \o a
    ELSE <<a[1]>> \o insertAsc(Tail(a), x)

RECURSIVE sortAsc(_)
sortAsc(arr) == IF Len(arr) = 0 THEN <<>> ELSE insertAsc(sortAsc(Tail(arr)), arr[1])

RECURSIVE reduceSum(_)
reduceSum(a) == IF Len(a) = 0 THEN 0 ELSE a[1] + reduceSum(Tail(a))

MaxOf(x, y) == IF x > y THEN x ELSE y
MinOf(x, y) == IF x < y THEN x ELSE y

pickIndexNearestRank(n, p) == MaxOf(0, MinOf(n - 1, ((p * n + 99) \div 100) - 1))
pickIndex(n, p) == MaxOf(0, MinOf(n - 1, (p * (n - 1)) \div 100))

pick(a, p) == IF pickIndex(Len(a), p) < Len(a) THEN a[pickIndex(Len(a), p) + 1] ELSE "undefined"

percentiles(arr) ==
    LET a == sortAsc(arr)
    IN  [p50 |-> pick(a, 50),
         p90 |-> pick(a, 90),
         p99 |-> pick(a, 99),
         mean |-> IF Len(a) = 0 THEN "NaN" ELSE [sum |-> reduceSum(a), n |-> Len(a)],
         max |-> IF Len(a) = 0 THEN "undefined" ELSE a[Len(a)]]

\* The latencies a run can measure, and the sample sequences percentiles is
\* explored on.
RunSamples == {10, 20}
SampleValues == {10 * k : k \in 1 .. MaxSamples}
SampleSeqs == UNION {[1 .. n -> SampleValues] : n \in 0 .. MaxSamples}

Workers == 1 .. MaxPool
NoSummary == [p50 |-> "-", p90 |-> "-", p99 |-> "-", mean |-> "-", max |-> "-"]

\* let session = null; ensureSession() makes the object (started_at set, no
\* stopped_at, results []) unless there is one already.
NoSession == [made |-> FALSE, stopped_at |-> FALSE, results |-> <<>>]
ensureSession(session) == IF ~session.made THEN [made |-> TRUE, stopped_at |-> FALSE, results |-> <<>>] ELSE session

\* recordResult(mode, req_id, res, clientMs) on the page state u: the item is
\* pushed on collected and, while a session is active, on session.results.
recordResult(u, mode, req_id) ==
    LET item == [req_id |-> req_id, mode |-> mode]
    IN  [u EXCEPT !.collected = Append(@, item),
                  !.session = IF u.sessionActive
                              THEN [ensureSession(@) EXCEPT !.results = Append(@, item)]
                              ELSE @]

\* res.results.forEach((r, i) => recordResult("server", i, r, null)).
RECURSIVE recordEach(_, _, _)
recordEach(u, i, n) == IF i >= n THEN u ELSE recordEach(recordResult(u, "server", i), i + 1, n)

\* No View button clicked yet, nothing in the modal.
NoRow == 0 - 1

\* The page: the run (pc, N, P, next, lat, the pool's workers and the index ix
\* each one awaits), collected, the session, and the modal (clicked is the
\* data-ix of the last View button clicked, modal the req_id of the record
\* whose probs it shows).
UiIdle == [pc |-> "idle", N |-> 0, P |-> 0, next |-> 0, lat |-> <<>>,
           worker |-> [w \in Workers |-> "off"], ix |-> [w \in Workers |-> 0], summary |-> NoSummary,
           collected |-> <<>>, sessionActive |-> FALSE, session |-> NoSession,
           clicked |-> NoRow, modal |-> NoRow]

\* ------------------------------------------------------------------- state
VARIABLES
    semCap,     \* cap(s.sem): the -maxgpu flag
    sem,        \* len(s.sem): permits held
    gpuMu,      \* s.gpuMu is locked
    inflight,   \* s.inflight
    now,        \* the clock
    tick,       \* ticks one Forward takes
    crashed,    \* the runtime has terminated the process (unrecovered panic)
    inf,        \* handleInfer goroutines
    bat,        \* handleInferBatch goroutines
    bl,         \* handleBlast goroutines
    task,       \* the goroutines a burst launched
    ui,         \* the load test page of one browser
    shut        \* main's shutdown goroutine and the GPU backend it tears down

vars == <<semCap, sem, gpuMu, inflight, now, tick, crashed, inf, bat, bl, task, ui, shut>>
server == <<semCap, sem, gpuMu, inflight, now, tick, crashed, inf, bat, bl, task, shut>>

InfIdle == [pc |-> "idle", pan |-> FALSE, req |-> [parsed |-> FALSE, input |-> <<>>, image |-> <<>>],
            img |-> <<>>, out |-> <<>>, rem |-> 0, lockedAt |-> 0, startQ |-> 0, qDelay |-> 0, start |-> 0, resp |-> ZeroResp]
BatIdle == [pc |-> "idle", pan |-> FALSE, req |-> [parsed |-> FALSE, batch |-> <<>>, images |-> <<>>],
            imgs |-> <<>>, i |-> 0, rem |-> 0, start |-> 0, topIdx |-> <<>>, topScores |-> <<>>, src |-> <<>>,
            latency_ms |-> 0]
BlIdle == [pc |-> "idle", req |-> [parsed |-> FALSE, n |-> 0, input |-> <<>>], img |-> <<>>,
           start |-> 0, wg |-> 0, results |-> <<>>, total_ms |-> 0, parallel |-> 0]
TaskNone == [pc |-> "none", t0 |-> 0, qDelay |-> 0, out |-> <<>>, rem |-> 0, lockedAt |-> 0]

\* The shutdown goroutine waits for a signal; native is NN.WebGPUNative after
\* InitializeOptimizedGPU, cleaned is set once CleanupOptimizedGPU has run.
Serving == [pc |-> "serving", native |-> TRUE, cleaned |-> FALSE]

\* main: the server as constructed.  make(chan struct{}, maxGPU) panics for a
\* negative flag, so the process serves only with maxGPU >= 0.
Init ==
    /\ semCap \in 0 .. MaxK
    /\ sem = 0
    /\ gpuMu = FALSE
    /\ inflight = 0
    /\ now = 0
    /\ tick = 0
    /\ crashed = FALSE
    /\ shut = Serving
    /\ inf = [h \in InferHandlers |-> InfIdle]
    /\ bat = [g \in BatchHandlers |-> BatIdle]
    /\ bl = [b \in BlastHandlers |-> BlIdle]
    /\ task = [t \in BlastTasks |-> TaskNone]
    /\ ui = UiIdle

\* ------------------------------------------------------ shared primitives
\* The listener takes new requests until app.ShutdownWithContext closes it.
Accepting == shut.pc # "closed"

\* time.Since(t), in ticks.
SinceNothing(t) == 0
Since(t) == now - t

\* s.sem <- struct{}{} completes when the buffer has room.  (With cap 0 a send
\* needs a waiting receiver; every receive of this program follows the
\* receiver's own send, so none ever waits.)
SemCanSendOffByOne(n, cap) == n <= cap
SemCanSend(n, cap) == n < cap

\* <-s.sem completes when the buffer holds an element.
SemCanRecv(n) == n > 0

\* s.gpuMu.Lock() completes when the mutex is unlocked.
MutexCanLockAlways(m) == TRUE
MutexCanLock(m) == m = FALSE

\* wg.Wait() returns when the counter is zero.
WaitReturns(w) == w = 0

\* atomic.AddInt64(&s.inflight, delta).
AddInt64Unsigned(n, delta) == IF delta < 0 THEN n ELSE n + delta
AddInt64(n, delta) == n + delta

\* atomic.LoadInt64(&s.inflight) as stored in the response.
LoadInflightLessSelf(n) == n - 1
LoadInflight(n) == n

\* results[ix]: the slot goroutine ix writes (1-based here).
ResultSlot(n, ix) == ix + 1

\* handleBlast's check of n.
BlastNValidLoose(n) == ~(n < 0 \/ n > BlastLimit)
BlastNValid(n) == ~(n <= 0 \/ n > BlastLimit)

\* --------------------------------------------------------------- /infer
\* handleInfer up to the send on sem: BodyParser, normalizeInput (400 on an
\* error of either), startQ := time.Now().
InferRecv(h, reqs) ==
    /\ ~crashed
    /\ Accepting
    /\ inf[h].pc = "idle"
    /\ \E req \in reqs :
         LET r == normalizeInput(req)
         IN  IF ~req.parsed \/ ~r.ok
             THEN inf' = [inf EXCEPT ![h].pc = "rejected", ![h].req = req]
             ELSE inf' = [inf EXCEPT ![h].pc = "acquire", ![h].req = req, ![h].img = r.img,
                                     ![h].startQ = now]
    /\ UNCHANGED <<semCap, tick, sem, gpuMu, inflight, now, crashed, bat, bl, task, ui, shut>>

\* s.sem <- struct{}{}; qDelay := time.Since(startQ).
InferAcquire(h) ==
    /\ ~crashed
    /\ inf[h].pc = "acquire"
    /\ SemCanSend(sem, semCap)
    /\ sem' = sem + 1
    /\ inf' = [inf EXCEPT ![h].pc = "inc", ![h].qDelay = Since(inf[h].startQ)]
    /\ UNCHANGED <<semCap, tick, gpuMu, inflight, now, crashed, bat, bl, task, ui, shut>>

\* atomic.AddInt64(&s.inflight, 1); the defer is registered; start := time.Now().
InferInc(h) ==
    /\ ~crashed
    /\ inf[h].pc = "inc"
    /\ inflight' = AddInt64(inflight, 1)
    /\ inf' = [inf EXCEPT ![h].pc = "lock", ![h].start = now]
    /\ UNCHANGED <<semCap, tick, sem, gpuMu, now, crashed, bat, bl, task, ui, shut>>

\* s.gpuMu.Lock(); the goroutine is now inside its Forward section.
InferLock(h) ==
    /\ ~crashed
    /\ inf[h].pc = "lock"
    /\ MutexCanLock(gpuMu)
    /\ gpuMu' = TRUE
    /\ inf' = [inf EXCEPT ![h].pc = "forward", ![h].rem = tick, ![h].lockedAt = now]
    /\ UNCHANGED <<semCap, tick, sem, inflight, now, crashed, bat, bl, task, ui, shut>>

\* s.NN.Forward(img); out := s.NN.ExtractOutput(); s.gpuMu.Unlock().
InferForward(h) ==
    /\ ~crashed
    /\ inf[h].pc = "forward"
    /\ inf[h].rem = 0
    /\ gpuMu' = FALSE
    /\ \E out \in OutputChoices : inf' = [inf EXCEPT ![h].pc = "respond", ![h].out = out]
    /\ UNCHANGED <<semCap, tick, sem, inflight, now, crashed, bat, bl, task, ui, shut>>

\* idx := argmax64(out); the response is built from out[idx], the latency
\* since start and the counter as loaded now.  With idx = -1, out[idx] panics:
\* no response is built and the goroutine goes on to its deferred function
\* (<-s.sem, AddInt64(-1)) as a panicking one.
InferRespond(h) ==
    /\ ~crashed
    /\ inf[h].pc = "respond"
    /\ LET out == inf[h].out
           idx == argmax64(out)
       IN  IF IndexPanics(out, idx)
           THEN inf' = [inf EXCEPT ![h].pc = "release", ![h].pan = TRUE]
           ELSE inf' = [inf EXCEPT ![h].pc = "release",
                                   ![h].resp = MakeResp(out, idx, Since(inf[h].start), inf[h].qDelay,
                                                        LoadInflight(inflight), NoTask)]
    /\ UNCHANGED <<semCap, tick, sem, gpuMu, inflight, now, crashed, bat, bl, task, ui, shut>>

\* The deferred function, first half: <-s.sem.
InferRelease(h) ==
    /\ ~crashed
    /\ inf[h].pc = "release"
    /\ SemCanRecv(sem)
    /\ sem' = sem - 1
    /\ inf' = [inf EXCEPT ![h].pc = "dec"]
    /\ UNCHANGED <<semCap, tick, gpuMu, inflight, now, crashed, bat, bl, task, ui, shut>>

\* The deferred function, second half: atomic.AddInt64(&s.inflight, -1).  The
\* handler has returned, or its panic goes on unrecovered.
InferDec(h) ==
    /\ ~crashed
    /\ inf[h].pc = "dec"
    /\ inflight' = AddInt64(inflight, 0 - 1)
    /\ inf' = [inf EXCEPT ![h].pc = IF inf[h].pan THEN "panicked" ELSE "done"]
    /\ UNCHANGED <<semCap, tick, sem, gpuMu, now, crashed, bat, bl, task, ui, shut>>

\* ---------------------------------------------------------- /infer-batch
\* reshape of every item of Batch, in order, stopping at the first error.
RECURSIVE reshapeAll(_, _)
reshapeAll(batch, i) ==
    IF i > Len(batch)
    THEN [ok |-> TRUE, imgs |-> <<>>]
    ELSE LET r == reshape(batch[i])
         IN  IF ~r.ok
             THEN [ok |-> FALSE, imgs |-> <<>>]
             ELSE LET rest == reshapeAll(batch, i + 1)
                  IN  [ok |-> rest.ok, imgs |-> IF rest.ok THEN <<r.img>> \o rest.imgs ELSE <<>>]

\* handleInferBatch's switch: Images as given, else Batch reshaped, else 400.
batchImages(req) ==
    IF Len(req.images) > 0
    THEN [ok |-> TRUE, imgs |-> req.images]
    ELSE IF Len(req.batch) > 0
         THEN reshapeAll(req.batch, 1)
         ELSE [ok |-> FALSE, imgs |-> <<>>]

BatchRecv(g, reqs) ==
    /\ ~crashed
    /\ Accepting
    /\ bat[g].pc = "idle"
    /\ \E req \in reqs :
         LET r == batchImages(req)
         IN  IF ~req.parsed \/ ~r.ok
             THEN bat' = [bat EXCEPT ![g].pc = "rejected", ![g].req = req]
             ELSE bat' = [bat EXCEPT ![g].pc = "acquire", ![g].req = req, ![g].imgs = r.imgs]
    /\ UNCHANGED <<semCap, tick, sem, gpuMu, inflight, now, crashed, inf, bl, task, ui, shut>>

\* topIdx[i], topScores[i], probs[i]: the slot iteration i writes (1-based here).
BatchSlot(i) == i + 1

\* s.sem <- struct{}{}; the defer is registered; start := time.Now().
BatchAcquire(g) ==
    /\ ~crashed
    /\ bat[g].pc = "acquire"
    /\ SemCanSend(sem, semCap)
    /\ sem' = sem + 1
    /\ bat' = [bat EXCEPT ![g].pc = "lock", ![g].start = now]
    /\ UNCHANGED <<semCap, tick, gpuMu, inflight, now, crashed, inf, bl, task, ui, shut>>

\* s.gpuMu.Lock(); the result slices are made; i := 0.
BatchLock(g) ==
    /\ ~crashed
    /\ bat[g].pc = "lock"
    /\ MutexCanLock(gpuMu)
    /\ gpuMu' = TRUE
    /\ bat' = [bat EXCEPT ![g].pc = "forward", ![g].i = 0, ![g].rem = tick,
                          ![g].topIdx = [k \in 1 .. Len(bat[g].imgs) |-> 0],
                          ![g].topScores = [k \in 1 .. Len(bat[g].imgs) |-> 0],
                          ![g].src = [k \in 1 .. Len(bat[g].imgs) |-> 0]]
    /\ UNCHANGED <<semCap, tick, sem, inflight, now, crashed, inf, bl, task, ui, shut>>

\* One iteration of the loop: Forward(imgs[i]), ExtractOutput, argmax64,
\* out[idx]; src records which image (1-based) each written slot came from.  A panic here leaves gpuMu locked (Unlock is not deferred) and
\* sends the goroutine to its deferred <-s.sem as a panicking one.
BatchForward(g) ==
    /\ ~crashed
    /\ bat[g].pc = "forward"
    /\ bat[g].i < Len(bat[g].imgs)
    /\ bat[g].rem = 0
    /\ \E out \in OutputChoices :
         LET idx == argmax64(out)
         IN  IF IndexPanics(out, idx)
             THEN bat' = [bat EXCEPT ![g].pc = "release", ![g].pan = TRUE]
             ELSE bat' = [bat EXCEPT ![g].i = bat[g].i + 1,
                                     ![g].rem = IF bat[g].i + 1 < Len(bat[g].imgs) THEN tick ELSE 0,
                                     ![g].topIdx[BatchSlot(bat[g].i)] = idx,
                                     ![g].topScores[BatchSlot(bat[g].i)] = out[idx + 1],
                                     ![g].src[BatchSlot(bat[g].i)] = bat[g].i + 1]
    /\ UNCHANGED <<semCap, tick, sem, gpuMu, inflight, now, crashed, inf, bl, task, ui, shut>>

\* After the loop: s.gpuMu.Unlock(); the response is built.
BatchUnlock(g) ==
    /\ ~crashed
    /\ bat[g].pc = "forward"
    /\ bat[g].i >= Len(bat[g].imgs)
    /\ gpuMu' = FALSE
    /\ bat' = [bat EXCEPT ![g].pc = "release", ![g].latency_ms = Since(bat[g].start)]
    /\ UNCHANGED <<semCap, tick, sem, inflight, now, crashed, inf, bl, task, ui, shut>>

\* The deferred <-s.sem.
BatchRelease(g) ==
    /\ ~crashed
    /\ bat[g].pc = "release"
    /\ SemCanRecv(sem)
    /\ sem' = sem - 1
    /\ bat' = [bat EXCEPT ![g].pc = IF bat[g].pan THEN "panicked" ELSE "done"]
    /\ UNCHANGED <<semCap, tick, gpuMu, inflight, now, crashed, inf, bl, task, ui, shut>>


\* ---------------------------------------------------------------- /blast
\* handleBlast up to wg.Wait(): BodyParser, the check of n, reshape (400 on
\* an error of any), start := time.Now(), results := make([]inferResp, n), and
\* the loop that does wg.Add(1) and starts goroutine ix for ix = 0..n-1, each
\* with its t0 := time.Now().
BlastRecv(b, reqs) ==
    /\ ~crashed
    /\ Accepting
    /\ bl[b].pc = "idle"
    /\ \E req \in reqs :
         LET r == reshape(req.input)
         IN  IF ~req.parsed \/ ~BlastNValid(req.n) \/ ~r.ok
             THEN /\ bl' = [bl EXCEPT ![b].pc = "rejected", ![b].req = req]
                  /\ UNCHANGED task
             ELSE /\ bl' = [bl EXCEPT ![b].pc = "wait", ![b].req = req, ![b].img = r.img,
                                      ![b].start = now, ![b].wg = req.n,
                                      ![b].results = [k \in 1 .. req.n |-> ZeroResp]]
                  /\ task' = [t \in BlastTasks |->
                                IF t[1] = b /\ t[2] < req.n
                                THEN [task[t] EXCEPT !.pc = "acquire", !.t0 = now]
                                ELSE task[t]]
    /\ UNCHANGED <<semCap, tick, sem, gpuMu, inflight, now, crashed, inf, bat, ui, shut>>

\* s.sem <- struct{}{}; qDelay := time.Since(t0).
TaskAcquire(t) ==
    /\ ~crashed
    /\ task[t].pc = "acquire"
    /\ SemCanSend(sem, semCap)
    /\ sem' = sem + 1
    /\ task' = [task EXCEPT ![t].pc = "inc", ![t].qDelay = Since(task[t].t0)]
    /\ UNCHANGED <<semCap, tick, gpuMu, inflight, now, crashed, inf, bat, bl, ui, shut>>

\* atomic.AddInt64(&s.inflight, 1).
TaskInc(t) ==
    /\ ~crashed
    /\ task[t].pc = "inc"
    /\ inflight' = AddInt64(inflight, 1)
    /\ task' = [task EXCEPT ![t].pc = "lock"]
    /\ UNCHANGED <<semCap, tick, sem, gpuMu, now, crashed, inf, bat, bl, ui, shut>>

\* s.gpuMu.Lock().
TaskLock(t) ==
    /\ ~crashed
    /\ task[t].pc = "lock"
    /\ MutexCanLock(gpuMu)
    /\ gpuMu' = TRUE
    /\ task' = [task EXCEPT ![t].pc = "forward", ![t].rem = tick, ![t].lockedAt = now]
    /\ UNCHANGED <<semCap, tick, sem, inflight, now, crashed, inf, bat, bl, ui, shut>>

\* s.NN.Forward(img); out := s.NN.ExtractOutput(); s.gpuMu.Unlock().
TaskForward(t) ==
    /\ ~crashed
    /\ task[t].pc = "forward"
    /\ task[t].rem = 0
    /\ gpuMu' = FALSE
    /\ \E out \in OutputChoices : task' = [task EXCEPT ![t].pc = "write", ![t].out = out]
    /\ UNCHANGED <<semCap, tick, sem, inflight, now, crashed, inf, bat, bl, ui, shut>>

\* idx := argmax64(out); results[ix] = inferResp{...} with the latency since
\* t0 and the counter as loaded now.  With idx = -1, out[idx] panics in the
\* goroutine: nothing is written, the permit and the count are kept (their
\* release is not deferred) and the deferred wg.Done() runs.
TaskWrite(t) ==
    /\ ~crashed
    /\ task[t].pc = "write"
    /\ LET b == t[1]
           ix == t[2]
           out == task[t].out
           idx == argmax64(out)
       IN  IF IndexPanics(out, idx)
           THEN /\ task' = [task EXCEPT ![t].pc = "panicked"]
                /\ bl' = [bl EXCEPT ![b].wg = bl[b].wg - 1]
           ELSE /\ task' = [task EXCEPT ![t].pc = "release"]
                /\ bl' = [bl EXCEPT ![b].results[ResultSlot(bl[b].req.n, ix)] =
                                      MakeResp(out, idx, Since(task[t].t0), task[t].qDelay,
                                               LoadInflight(inflight), ix)]
    /\ UNCHANGED <<semCap, tick, sem, gpuMu, inflight, now, crashed, inf, bat, ui, shut>>

\* <-s.sem.
TaskRelease(t) ==
    /\ ~crashed
    /\ task[t].pc = "release"
    /\ SemCanRecv(sem)
    /\ sem' = sem - 1
    /\ task' = [task EXCEPT ![t].pc = "dec"]
    /\ UNCHANGED <<semCap, tick, gpuMu, inflight, now, crashed, inf, bat, bl, ui, shut>>

\* atomic.AddInt64(&s.inflight, -1); the goroutine returns: wg.Done().
TaskDec(t) ==
    /\ ~crashed
    /\ task[t].pc = "dec"
    /\ inflight' = AddInt64(inflight, 0 - 1)
    /\ task' = [task EXCEPT ![t].pc = "done"]
    /\ bl' = [bl EXCEPT ![t[1]].wg = bl[t[1]].wg - 1]
    /\ UNCHANGED <<semCap, tick, sem, gpuMu, now, crashed, inf, bat, ui, shut>>

\* wg.Wait() returns; the response carries the results, the time since start
\* and cap(s.sem).
BlastReturn(b) ==
    /\ ~crashed
    /\ bl[b].pc = "wait"
    /\ WaitReturns(bl[b].wg)
    /\ bl' = [bl EXCEPT ![b].pc = "done", ![b].total_ms = Since(bl[b].start), ![b].parallel = semCap]
    /\ UNCHANGED <<semCap, tick, sem, gpuMu, inflight, now, crashed, inf, bat, task, ui, shut>>

\* ------------------------------------------------------- load test page
\* The click on Run: mode, N = count and P = parallel are read and the
\* metrics cleared.  clientMode starts P workers on an empty lat; serverMode
\* sends one /blast.
RunClick ==
    /\ ui.pc = "idle"
    /\ \E mode \in {"client", "server"}, N \in 0 .. MaxRun, P \in 0 .. MaxPool :
         ui' = [ui EXCEPT !.pc = mode, !.N = N, !.P = P, !.next = 0, !.lat = <<>>, !.collected = <<>>,
                          !.worker = [w \in Workers |-> IF mode = "client" /\ w <= P THEN "loop" ELSE "off"]]
    /\ UNCHANGED server

\* A worker of the pool: ix = next++; if (ix >= N) break; else fetch("/infer").
WorkerTake(w) ==
    /\ ui.pc = "client"
    /\ ui.worker[w] = "loop"
    /\ ui' = [ui EXCEPT !.next = @ + 1, !.ix[w] = ui.next,
                        !.worker[w] = IF ui.next >= ui.N THEN "exit" ELSE "await"]
    /\ UNCHANGED server

\* The fetch settles: with a JSON body the measured dt is pushed on lat and
\* the result recorded under the worker's ix; a failed request throws, the
\* worker logs it and goes on.
WorkerSettle(w) ==
    /\ ui.pc = "client"
    /\ ui.worker[w] = "await"
    /\ \/ \E dt \in RunSamples :
            ui' = recordResult([ui EXCEPT !.lat = Append(@, dt), !.worker[w] = "loop"], "client", ui.ix[w])
       \/ ui' = [ui EXCEPT !.worker[w] = "loop"]
    /\ UNCHANGED server

\* Promise.all(runPool) resolves; finalizeRun(lat, total) calls percentiles(lat).
ClientFinalize ==
    /\ ui.pc = "client"
    /\ \A w \in Workers : ui.worker[w] \in {"off", "exit"}
    /\ ui' = [ui EXCEPT !.pc = "done", !.summary = percentiles(ui.lat)]
    /\ UNCHANGED server

\* serverMode: the /blast response.  An accepted burst answers N results and
\* finalizeRun summarizes their latencies; a rejected one answers {error},
\* res.results.map throws and the click handler reports the error.
ServerAnswer ==
    /\ ui.pc = "server"
    /\ IF BlastNValid(ui.N)
       THEN \E lat \in [1 .. ui.N -> RunSamples] :
                ui' = recordEach([ui EXCEPT !.pc = "done", !.lat = lat, !.summary = percentiles(lat)], 0, ui.N)
       ELSE ui' = [ui EXCEPT !.pc = "error"]
    /\ UNCHANGED server

\* The click on Start session.
startSession ==
    /\ ~ui.sessionActive
    /\ ui' = [ui EXCEPT !.session = ensureSession(@), !.sessionActive = TRUE]
    /\ UNCHANGED server

\* The click on Stop session: session.stopped_at is set.
stopSession ==
    /\ ui.sessionActive
    /\ ui' = [ui EXCEPT !.sessionActive = FALSE, !.session.stopped_at = TRUE]
    /\ UNCHANGED server

\* The table rows of the current run: appendRow follows every recordResult
\* with the same index.
RowLabels == {ui.collected[k].req_id : k \in 1 .. Len(ui.collected)}

\* The click on the View button of the row labelled rix: r = collected[ix];
\* nothing is shown when r is undefined.
ViewClick(rix) ==
    /\ rix \in RowLabels
    /\ ui' = [ui EXCEPT !.clicked = rix,
                        !.modal = IF rix < Len(ui.collected) THEN ui.collected[rix + 1].req_id ELSE @]
    /\ UNCHANGED server

UiNext ==
    \/ RunClick
    \/ \E w \in Workers : WorkerTake(w)
    \/ \E w \in Workers : WorkerSettle(w)
    \/ ClientFinalize
    \/ ServerAnswer
    \/ startSession
    \/ stopSession
    \/ \E rix \in 0 .. MaxRun - 1 : ViewClick(rix)

\* ----------------------------------------------------------------- clock
\* A goroutine inside NN.Forward with work left.
Computing ==
    \/ \E h \in InferHandlers : inf[h].pc = "forward" /\ inf[h].rem > 0
    \/ \E g \in BatchHandlers : bat[g].pc = "forward" /\ bat[g].rem > 0
    \/ \E t \in BlastTasks : task[t].pc = "forward" /\ task[t].rem > 0

\* One tick of the clock: every goroutine inside NN.Forward has one tick less
\* to compute.  Time is observed only while some Forward runs.
ClockTick ==
    /\ ~crashed
    /\ Computing
    /\ now' = now + 1
    /\ inf' = [h \in InferHandlers |->
                 IF inf[h].pc = "forward" /\ inf[h].rem > 0 THEN [inf[h] EXCEPT !.rem = @ - 1] ELSE inf[h]]
    /\ bat' = [g \in BatchHandlers |->
                 IF bat[g].pc = "forward" /\ bat[g].rem > 0 THEN [bat[g] EXCEPT !.rem = @ - 1] ELSE bat[g]]
    /\ task' = [t \in BlastTasks |->
                  IF task[t].pc = "forward" /\ task[t].rem > 0 THEN [task[t] EXCEPT !.rem = @ - 1] ELSE task[t]]
    /\ UNCHANGED <<semCap, tick, sem, gpuMu, inflight, crashed, bl, ui, shut>>

\* ---------------------------------------------------------------- panics
\* A goroutine whose deferred calls have run with its panic unrecovered (no
\* handler and no middleware calls recover).
Panicked ==
    \/ \E h \in InferHandlers : inf[h].pc = "panicked"
    \/ \E g \in BatchHandlers : bat[g].pc = "panicked"
    \/ \E t \in BlastTasks : task[t].pc = "panicked"

\* The runtime reports the panic and exits: every goroutine stops where it
\* is.  Until then the other goroutines keep running.
FatalPanic ==
    /\ ~crashed
    /\ Panicked
    /\ crashed' = TRUE
    /\ UNCHANGED <<semCap, tick, sem, gpuMu, inflight, now, inf, bat, bl, task, ui, shut>>

\* -------------------------------------------------------------- shutdown
\* The shutdown goroutine of main: <-sigc returns on SIGINT or SIGTERM.
Signalled ==
    /\ ~crashed
    /\ shut.pc = "serving"
    /\ shut' = [shut EXCEPT !.pc = "signalled"]
    /\ UNCHANGED <<semCap, tick, sem, gpuMu, inflight, now, crashed, inf, bat, bl, task, ui>>

\* if s.NN.WebGPUNative { s.NN.CleanupOptimizedGPU() }: the teardown takes no
\* lock and waits for no handler.
Cleanup ==
    /\ ~crashed
    /\ shut.pc = "signalled"
    /\ shut' = [shut EXCEPT !.pc = "closing", !.cleaned = shut.native]
    /\ UNCHANGED <<semCap, tick, sem, gpuMu, inflight, now, crashed, inf, bat, bl, task, ui>>

\* app.ShutdownWithContext(ctx) closes the listener; the handlers already
\* running go on.
ShutdownWithContext ==
    /\ ~crashed
    /\ shut.pc = "closing"
    /\ shut' = [shut EXCEPT !.pc = "closed"]
    /\ UNCHANGED <<semCap, tick, sem, gpuMu, inflight, now, crashed, inf, bat, bl, task, ui>>

ShutdownWork == Signalled \/ Cleanup \/ ShutdownWithContext

\* ------------------------------------------------------------ the program
\* Every step after a request was accepted.
InferWork ==
    \/ \E h \in InferHandlers : InferAcquire(h)
    \/ \E h \in InferHandlers : InferInc(h)
    \/ \E h \in InferHandlers : InferLock(h)
    \/ \E h \in InferHandlers : InferForward(h)
    \/ \E h \in InferHandlers : InferRespond(h)
    \/ \E h \in InferHandlers : InferRelease(h)
    \/ \E h \in InferHandlers : InferDec(h)

BatchWork ==
    \/ \E g \in BatchHandlers : BatchAcquire(g)
    \/ \E g \in BatchHandlers : BatchLock(g)
    \/ \E g \in BatchHandlers : BatchForward(g)
    \/ \E g \in BatchHandlers : BatchUnlock(g)
    \/ \E g \in BatchHandlers : BatchRelease(g)

BlastWork ==
    \/ \E t \in BlastTasks : TaskAcquire(t)
    \/ \E t \in BlastTasks : TaskInc(t)
    \/ \E t \in BlastTasks : TaskLock(t)
    \/ \E t \in BlastTasks : TaskForward(t)
    \/ \E t \in BlastTasks : TaskWrite(t)
    \/ \E t \in BlastTasks : TaskRelease(t)
    \/ \E t \in BlastTasks : TaskDec(t)
    \/ \E b \in BlastHandlers : BlastReturn(b)

Work == InferWork \/ BatchWork \/ BlastWork \/ FatalPanic

\* Concurrent load: one /infer, one /infer-batch and one /blast of up to
\* MaxBurst goroutines, for every gate capacity.
Next ==
    \/ \E h \in InferHandlers : InferRecv(h, CoreInferReqs)
    \/ \E g \in BatchHandlers : BatchRecv(g, CoreBatchReqs)
    \/ \E b \in BlastHandlers : BlastRecv(b, CoreBlastReqs)
    \/ Work

\* Every shape of request on the three endpoints at once.
NextRequests ==
    \/ \E h \in InferHandlers : InferRecv(h, AnyInferReqs)
    \/ \E g \in BatchHandlers : BatchRecv(g, AnyBatchReqs)
    \/ \E b \in BlastHandlers : BlastRecv(b, AnyBlastReqs)
    \/ Work

Spec == Init /\ [][Next]_vars

RequestSpec == Init /\ [][NextRequests]_vars

\* One /infer and one /blast of a single goroutine on the clock: every
\* Forward takes ForwardTicks ticks of computing.
SingleBlastReqs == {r \in CoreBlastReqs : r.n <= 1}

NextTimed ==
    \/ \E h \in InferHandlers : InferRecv(h, CoreInferReqs)
    \/ \E b \in BlastHandlers : BlastRecv(b, SingleBlastReqs)
    \/ InferWork
    \/ BlastWork
    \/ FatalPanic
    \/ ClockTick

InitTimed ==
    /\ semCap \in 0 .. MaxK
    /\ sem = 0
    /\ gpuMu = FALSE
    /\ inflight = 0
    /\ now = 0
    /\ tick = ForwardTicks
    /\ crashed = FALSE
    /\ shut = Serving
    /\ inf = [h \in InferHandlers |-> InfIdle]
    /\ bat = [g \in BatchHandlers |-> BatIdle]
    /\ bl = [b \in BlastHandlers |-> BlIdle]
    /\ task = [t \in BlastTasks |-> TaskNone]
    /\ ui = UiIdle

TimedSpec == InitTimed /\ [][NextTimed]_vars

\* One /blast of up to MaxBurst goroutines, alone, on the clock.
NextBurstTimed ==
    \/ \E b \in BlastHandlers : BlastRecv(b, CoreBlastReqs)
    \/ BlastWork
    \/ FatalPanic
    \/ ClockTick

BurstTimedSpec == InitTimed /\ [][NextBurstTimed]_vars

\* argmax64 on every vector of ScoreVectors: a /infer handler that holds a
\* permit and has just got the vector from ExtractOutput goes on to respond.
InitScores ==
    /\ semCap \in 1 .. MaxK
    /\ sem = 1
    /\ gpuMu = FALSE
    /\ inflight = 1
    /\ now = 0
    /\ tick = 0
    /\ crashed = FALSE
    /\ shut = Serving
    /\ \E v \in ScoreVectors :
         inf = [h \in InferHandlers |->
                  [InfIdle EXCEPT !.pc = "respond", !.out = v,
                                  !.req = [parsed |-> TRUE, input |-> FlatOf(NPix), image |-> <<>>],
                                  !.img = reshape(FlatOf(NPix)).img]]
    /\ bat = [g \in BatchHandlers |-> BatIdle]
    /\ bl = [b \in BlastHandlers |-> BlIdle]
    /\ task = [t \in BlastTasks |-> TaskNone]
    /\ ui = UiIdle

NextScores ==
    \/ \E h \in InferHandlers : InferRespond(h)
    \/ \E h \in InferHandlers : InferRelease(h)
    \/ \E h \in InferHandlers : InferDec(h)
    \/ FatalPanic

ScoreSpec == InitScores /\ [][NextScores]_vars

\* The load test page alone: runs of every N and P, requests that fail.
UiSpec == Init /\ [][UiNext]_vars

\* percentiles on every sequence of SampleSeqs: a client run whose pool has
\* drained with these samples measured goes on to finalizeRun.
InitSummary ==
    /\ semCap \in 1 .. MaxK
    /\ sem = 0
    /\ gpuMu = FALSE
    /\ inflight = 0
    /\ now = 0
    /\ tick = 0
    /\ crashed = FALSE
    /\ shut = Serving
    /\ inf = [h \in InferHandlers |-> InfIdle]
    /\ bat = [g \in BatchHandlers |-> BatIdle]
    /\ bl = [b \in BlastHandlers |-> BlIdle]
    /\ task = [t \in BlastTasks |-> TaskNone]
    /\ \E lat \in SampleSeqs :
         ui = [UiIdle EXCEPT !.pc = "client", !.N = Len(lat), !.P = 1, !.next = Len(lat) + 1,
                             !.lat = lat, !.worker = [w \in Workers |-> IF w = 1 THEN "exit" ELSE "off"]]

SummarySpec == InitSummary /\ [][ClientFinalize]_vars

\* The server under /infer and single-goroutine bursts while a signal may
\* arrive at any time, with the GPU backend initialized or not.
InitShutdown ==
    /\ semCap \in 0 .. MaxK
    /\ sem = 0
    /\ gpuMu = FALSE
    /\ inflight = 0
    /\ now = 0
    /\ tick = 0
    /\ crashed = FALSE
    /\ \E native \in BOOLEAN : shut = [Serving EXCEPT !.native = native]
    /\ inf = [h \in InferHandlers |-> InfIdle]
    /\ bat = [g \in BatchHandlers |-> BatIdle]
    /\ bl = [b \in BlastHandlers |-> BlIdle]
    /\ task = [t \in BlastTasks |-> TaskNone]
    /\ ui = UiIdle

NextShutdown ==
    \/ \E h \in InferHandlers : InferRecv(h, CoreInferReqs)
    \/ \E b \in BlastHandlers : BlastRecv(b, SingleBlastReqs)
    \/ InferWork
    \/ BlastWork
    \/ FatalPanic
    \/ ShutdownWork

ShutdownSpec == InitShutdown /\ [][NextShutdown]_vars

\* The Go scheduler runs every runnable goroutine: a step that stays enabled
\* is eventually taken.
FairSpec == Spec /\ WF_vars(Next)


\* ============================================================ properties
InferPcs(S) == {h \in InferHandlers : inf[h].pc \in S}
BatchPcs(S) == {g \in BatchHandlers : bat[g].pc \in S}
TaskPcs(S) == {t \in BlastTasks : task[t].pc \in S}

\* Goroutines that have sent on sem and not yet received from it.  (A burst
\* goroutine that panicked never receives; the deferred function of a
\* panicking handler does.)
PermitHolders ==
    Cardinality(InferPcs({"inc", "lock", "forward", "respond", "release"}))
    + Cardinality(BatchPcs({"lock", "forward", "release"}))
    + Cardinality(TaskPcs({"inc", "lock", "forward", "write", "release", "panicked"}))

\* Goroutines between gpuMu.Lock() and gpuMu.Unlock(); a batch handler that
\* panicked inside its loop never reaches the Unlock.
InSection ==
    Cardinality(InferPcs({"forward"})) + Cardinality(BatchPcs({"forward"})) + Cardinality(TaskPcs({"forward"}))
    + Cardinality({g \in BatchHandlers : bat[g].pan})

\* Goroutines blocked on the send to sem.
AtGate ==
    Cardinality(InferPcs({"acquire"})) + Cardinality(BatchPcs({"acquire"})) + Cardinality(TaskPcs({"acquire"}))

\* Dispatches the counter counts: after their AddInt64(+1), before their AddInt64(-1).
CountedInfer == InferPcs({"lock", "forward", "respond", "release", "dec"})
CountedTasks == TaskPcs({"lock", "forward", "write", "release", "dec", "panicked"})

ShapeOK(img) == Len(img) = InputH /\ \A r \in 1 .. Len(img) : Len(img[r]) = InputW

\* C1 (as claimed): the inflight counter never exceeds the gate capacity
\* cap(sem), whatever the interleaving of /infer requests and /blast tasks.
C1_InflightBound == inflight <= semCap

\* C2: at most one goroutine is between gpuMu.Lock() and gpuMu.Unlock() (and
\* the mutex is locked exactly then), for every mix of /infer, /infer-batch
\* and /blast and every gate capacity.
C2_Serialization == InSection <= 1 /\ (gpuMu <=> InSection = 1)

\* C2 witness: one goroutine is in its Forward section while another, holding
\* a permit, waits for the mutex.
C2_Witness ==
    /\ InSection = 1
    /\ gpuMu
    /\ InferPcs({"lock"}) # {} \/ BatchPcs({"lock"}) # {} \/ TaskPcs({"lock"}) # {}

\* C3: the goroutines that completed the send on sem and not yet the matching
\* receive number at most cap(sem), and they are exactly the elements the
\* channel buffers: a send completes only while fewer than cap(sem) are held.
C3_PermitBound ==
    /\ PermitHolders <= semCap
    /\ sem = PermitHolders

\* C3 witness: the gate is full and a further goroutine is blocked on its send.
C3_Witness ==
    /\ semCap >= 1
    /\ PermitHolders = semCap
    /\ AtGate > 0

\* C4 (as claimed): a written result slot holds the result of the goroutine launched with
\* that slot's index, and when the burst has returned every slot i holds the
\* result of goroutine i, whatever the order in which the goroutines finished.
C4_IndexStability ==
    \A b \in BlastHandlers :
        /\ \A k \in 1 .. Len(bl[b].results) : bl[b].results[k].task \in {NoTask, k - 1}
        /\ bl[b].pc = "done" => \A k \in 1 .. Len(bl[b].results) : bl[b].results[k].task = k - 1

\* C5 (as claimed): the burst's response is built only when every launched goroutine has
\* finished and every result slot has been written.
C5_BurstComplete ==
    \A b \in BlastHandlers :
        bl[b].pc = "done" =>
            /\ Len(bl[b].results) = bl[b].req.n
            /\ \A k \in 1 .. bl[b].req.n : bl[b].results[k].task # NoTask
            /\ \A t \in BlastTasks : (t[1] = b /\ t[2] < bl[b].req.n) => task[t].pc = "done"

\* A rejected call changes nothing but its own goroutine, and stays rejected.
C6_NoSideEffect ==
    /\ \A h \in InferHandlers :
         /\ (inf[h].pc = "idle" /\ inf'[h].pc = "rejected") => UNCHANGED <<sem, inflight, gpuMu, task, bat, bl>>
         /\ inf[h].pc = "rejected" => inf'[h].pc = "rejected"
    /\ \A b \in BlastHandlers :
         /\ (bl[b].pc = "idle" /\ bl'[b].pc = "rejected") => UNCHANGED <<sem, inflight, gpuMu, task, bat, inf>>
         /\ bl[b].pc = "rejected" => bl'[b].pc = "rejected"

C6_BlastRejected ==
    \A b \in BlastHandlers :
        (bl[b].pc # "idle"
         /\ (bl[b].req.n <= 0 \/ bl[b].req.n > BlastLimit \/ Len(bl[b].req.input) # InputW * InputH))
        => bl[b].pc = "rejected"

C6_InferRejected ==
    \A h \in InferHandlers :
        (inf[h].pc # "idle" /\ Len(inf[h].req.image) = 0 /\ Len(inf[h].req.input) # InputW * InputH)
        => inf[h].pc = "rejected"

\* C6 (amended): a burst with n <= 0 or n > 2000 or with an input whose length
\* is not W*H, and a single inference that carries no image and whose
\* flattened input length is not W*H, is rejected; the rejecting step launches
\* no goroutine, takes no permit and leaves inflight, the permits held and
\* gpuMu as they were, and the rejected call takes no later step.
C6_Rejection == [](C6_BlastRejected /\ C6_InferRejected) /\ [][C6_NoSideEffect]_vars

\* C6 witness: a burst with n > 2000 and a single inference with a short
\* input have been rejected while another request holds a permit.
C6_Witness ==
    /\ \E b \in BlastHandlers : bl[b].pc = "rejected" /\ bl[b].req.n > BlastLimit
    /\ \E h \in InferHandlers :
         inf[h].pc = "rejected" /\ Len(inf[h].req.input) > 0 /\ Len(inf[h].req.input) # InputW * InputH
    /\ sem > 0

\* C6 (as claimed): every single inference that carries a flattened input
\* whose length is not W*H is rejected.
C6_Original ==
    \A h \in InferHandlers :
        (inf[h].pc # "idle" /\ Len(inf[h].req.input) > 0 /\ Len(inf[h].req.input) # InputW * InputH)
        => inf[h].pc = "rejected"

\* The tensor a goroutine inside its Forward section passes to NN.Forward.
ForwardedOK ==
    /\ \A h \in InferPcs({"forward"}) : ShapeOK(inf[h].img)
    /\ \A g \in BatchPcs({"forward"}) :
         bat[g].i < Len(bat[g].imgs) => ShapeOK(bat[g].imgs[bat[g].i + 1])
    /\ \A t \in TaskPcs({"forward"}) : ShapeOK(bl[t[1]].img)

\* C7 (as claimed): every tensor passed to NN.Forward by /infer, /infer-batch
\* or /blast has exactly H rows of exactly W values.
C7_ShapeInvariant == ForwardedOK

\* C8 (as claimed): every goroutine that attempts the send on sem eventually
\* completes it, unless a panic has terminated the process.
C8_AdmissionLiveness ==
    /\ \A h \in InferHandlers : (inf[h].pc = "acquire") ~> (inf[h].pc # "acquire" \/ crashed)
    /\ \A g \in BatchHandlers : (bat[g].pc = "acquire") ~> (bat[g].pc # "acquire" \/ crashed)
    /\ \A t \in BlastTasks : (task[t].pc = "acquire") ~> (task[t].pc # "acquire" \/ crashed)

\* C9 (as claimed): when the resource fails while serving slot i of a burst,
\* the sibling goroutines and the burst itself are not aborted: each has
\* finished or can still run.
C9_FailureIsolation ==
    \A t \in BlastTasks :
        (task[t].pc = "panicked") =>
            /\ \A u \in BlastTasks : (u[1] = t[1] /\ u # t /\ task[u].pc \notin {"none", "done"}) => ~crashed
            /\ bl[t[1]].pc = "done" \/ ~crashed

\* The step in which a dispatch stores the inflight value in its result.
InferReports(h) == inf[h].pc = "respond" /\ inf'[h].pc = "release" /\ ~inf'[h].pan
TaskReports(t) == task[t].pc = "write" /\ task'[t].pc = "release"
TaskSlot(t) == bl'[t[1]].results[t[2] + 1]

\* C10 (amended): the inflight value stored in a DispatchResult (the /infer
\* response, each /blast slot) is read before the request's own decrement: it
\* counts the request itself, one more than the other dispatches counted then.
C10_ReportedCountsSelf ==
    [][/\ \A h \in InferHandlers :
            InferReports(h) =>
                inf'[h].resp.inflight = Cardinality(CountedInfer \ {h}) + Cardinality(CountedTasks) + 1
       /\ \A t \in BlastTasks :
            TaskReports(t) =>
                TaskSlot(t).inflight = Cardinality(CountedInfer) + Cardinality(CountedTasks \ {t}) + 1]_vars

\* C10 witness: a burst slot reports an inflight value of 2: itself and one other.
C10_Witness ==
    \E b \in BlastHandlers : \E k \in 1 .. Len(bl[b].results) :
        bl[b].results[k].task # NoTask /\ bl[b].results[k].inflight = 2

\* C10 (as claimed): the stored inflight value does not count the request
\* itself: it is the number of the other dispatches counted.
C10_Original ==
    [][/\ \A h \in InferHandlers :
            InferReports(h) =>
                inf'[h].resp.inflight = Cardinality(CountedInfer \ {h}) + Cardinality(CountedTasks)
       /\ \A t \in BlastTasks :
            TaskReports(t) =>
                TaskSlot(t).inflight = Cardinality(CountedInfer) + Cardinality(CountedTasks \ {t})]_vars

\* The moment a dispatch completed its send on sem (its queue delay ended).
InferAdmittedAt(h) == inf[h].startQ + inf[h].qDelay
TaskAdmittedAt(t) == task[t].t0 + task[t].qDelay

\* C11 (as claimed): the compute latency stored in a DispatchResult, on /infer
\* and in every /blast slot, is measured from a time taken after the permit
\* was acquired: it is at most the time elapsed since the acquisition and
\* holds none of the queue delay.
C11_LatencyExcludesQueue ==
    [][/\ \A h \in InferHandlers :
            InferReports(h) => inf'[h].resp.latency_ms <= now - InferAdmittedAt(h)
       /\ \A t \in BlastTasks :
            TaskReports(t) => TaskSlot(t).latency_ms <= now - TaskAdmittedAt(t)]_vars

\* C12: with every Forward computing for `tick` ticks under the mutex, a burst
\* of n that has returned reports a total time of at least n x tick, for every
\* gate capacity K >= 1.
C12_LowerBound ==
    \A b \in BlastHandlers :
        (bl[b].pc = "done" /\ semCap >= 1) => bl[b].total_ms >= bl[b].req.n * tick

\* C12 witness: a burst of at least two goroutines, admitted together by a
\* gate of capacity two or more, has returned after n x tick ticks or more.
C12_Witness ==
    \E b \in BlastHandlers :
        /\ bl[b].pc = "done"
        /\ bl[b].req.n >= 2
        /\ semCap >= 2
        /\ tick >= 1
        /\ bl[b].total_ms >= bl[b].req.n * tick
        /\ \A k \in 1 .. bl[b].req.n : bl[b].results[k].task # NoTask /\ bl[b].results[k].queued_ms = 0

C13_ArgmaxFirstMax ==
    \A h \in InferHandlers :
        (inf[h].pc \in {"release", "dec", "done"} /\ ~inf[h].pan) =>
            LET v == inf[h].out
                i == inf[h].resp.top_index
            IN  /\ Len(v) > 0
                /\ i \in 0 .. Len(v) - 1
                /\ \A j \in 1 .. Len(v) : v[j] <= v[i + 1]
                /\ \A j \in 1 .. i : v[j] < v[i + 1]
                /\ inf[h].resp.top_score = v[i + 1]

\* C13 witness: the vector [1, 2, 2, 0] (the pattern of [0.2, 0.5, 0.5, 0.1])
\* has been answered with top index 1.
C13_Witness ==
    \E h \in InferHandlers :
        /\ inf[h].pc = "release"
        /\ inf[h].out = <<1, 2, 2, 0>>
        /\ inf[h].resp.top_index = 1

\* The samples below v and the samples up to v, counted on the sequence as given.
CountBelow(arr, v) == Cardinality({i \in 1 .. Len(arr) : arr[i] < v})
CountUpTo(arr, v) == Cardinality({i \in 1 .. Len(arr) : arr[i] <= v})

\* v is the element at 0-based index k of the ascending order of arr.
IsRanked(arr, k, v) ==
    /\ \E i \in 1 .. Len(arr) : arr[i] = v
    /\ CountBelow(arr, v) <= k
    /\ CountUpTo(arr, v) >= k + 1

\* floor(p x (n - 1)) for p in hundredths, clamped to [0, n - 1].
RuleIndex(n, p) ==
    LET k == (p * (n - 1)) \div 100
    IN  IF k < 0 THEN 0 ELSE IF k > n - 1 THEN n - 1 ELSE k

Summarized == ui.pc = "done" /\ Len(ui.lat) >= 1

\* C14: for every non-empty sample sequence, p50, p90 and p99 are the elements
\* at index floor(p x (n - 1)), clamped, of the ascending order of the samples,
\* max is the largest sample, mean is the sum over n, and the step that
\* summarizes leaves the sample sequence as it was.
C14_PercentileRule ==
    /\ [](Summarized =>
            LET n == Len(ui.lat)
            IN  /\ IsRanked(ui.lat, RuleIndex(n, 50), ui.summary.p50)
                /\ IsRanked(ui.lat, RuleIndex(n, 90), ui.summary.p90)
                /\ IsRanked(ui.lat, RuleIndex(n, 99), ui.summary.p99)
                /\ IsRanked(ui.lat, n - 1, ui.summary.max)
                /\ ui.summary.mean.n = n
                /\ ui.summary.mean.sum = reduceSum(ui.lat))
    /\ [][(ui.pc = "client" /\ ui'.pc = "done") => ui'.lat = ui.lat]_vars

\* C14 witness: an unsorted sequence with a repeated sample has been summarized.
C14_Witness ==
    /\ Summarized
    /\ ui.lat = <<30, 10, 30, 20>>
    /\ ui.summary.p50 = 20

\* C15 (amended): the samples [10, 20, 30, 40, 50] are summarized as p50 = 30,
\* p90 = 40 (index floor(0.9 x 4) = 3), mean = 30 and max = 50.
C15_Example ==
    (ui.pc = "done" /\ ui.lat = <<10, 20, 30, 40, 50>>) =>
        /\ ui.summary.p50 = 30
        /\ ui.summary.p90 = 40
        /\ ui.summary.mean.sum = 30 * ui.summary.mean.n
        /\ ui.summary.max = 50

\* C15 witness: the samples [10, 20, 30, 40, 50] have been summarized.
C15_Witness == ui.pc = "done" /\ ui.lat = <<10, 20, 30, 40, 50>> /\ ui.summary.p90 = 40

\* C15 (as claimed): the samples [10, 20, 30, 40, 50] are summarized as
\* p50 = 30, p90 = 50, mean = 30 and max = 50.
C15_Original ==
    (ui.pc = "done" /\ ui.lat = <<10, 20, 30, 40, 50>>) =>
        /\ ui.summary.p50 = 30
        /\ ui.summary.p90 = 50
        /\ ui.summary.mean.sum = 30 * ui.summary.mean.n
        /\ ui.summary.max = 50

\* C16 (as claimed): whenever a run has been finalized, client-driven or
\* burst-driven, percentiles was given at least one latency sample.
C16_NonEmptySummarize == ui.pc = "done" => Len(ui.lat) >= 1

\* C17 (as claimed): the gate the process serves with has a capacity of at
\* least one, and the capacity never changes.
C17_GateCapacity == [](semCap >= 1) /\ [][semCap' = semCap]_vars

\* Dispatches between their send on sem and their receive from it.
HoldingInfer == InferPcs({"inc", "lock", "forward", "respond", "release"})
HoldingTasks == TaskPcs({"inc", "lock", "forward", "write", "release", "panicked"})

\* C18 (as claimed): the counter is incremented after the permit is acquired
\* and decremented before it is returned: every dispatch the counter counts
\* (/infer and each /blast goroutine) holds a permit.
C18_ReleaseOrdering ==
    /\ CountedInfer \subseteq HoldingInfer
    /\ CountedTasks \subseteq HoldingTasks

\* No goroutine is between a permit operation and its matching counter update.
Settled ==
    /\ InferPcs({"inc", "dec"}) = {}
    /\ TaskPcs({"inc", "dec"}) = {}

\* C19 (as claimed): whenever no goroutine is between a permit operation and
\* its counter update, the inflight counter equals the number of permits held,
\* whichever of /infer, /infer-batch and /blast took them.
C19_InflightCountsHolders == Settled => inflight = sem

\* Goroutines whose dispatch failed: the resource produced no usable output
\* and the goroutine has left its handler code.
FailedInfer == InferPcs({"panicked"})
FailedBatch == BatchPcs({"panicked"})
FailedTasks == TaskPcs({"panicked"})

\* C21 (as claimed): after the resource fails during one dispatch, that
\* dispatch holds neither the exclusive lock nor a permit, its inflight
\* increment is undone, and the process keeps serving, so that later
\* dispatches can still acquire a permit and the lock and complete.
C21_FailureRecovery ==
    (FailedInfer # {} \/ FailedBatch # {} \/ FailedTasks # {}) =>
        /\ ~crashed
        /\ sem = PermitHolders - Cardinality(FailedTasks)
        /\ gpuMu => InSection - Cardinality({g \in FailedBatch : bat[g].pan}) >= 1
        /\ Settled => inflight = Cardinality(CountedInfer) + Cardinality(CountedTasks \ FailedTasks)

\* Every scalar of a tensor lies in [0, 1] (rows taken at their own lengths).
RangeOK(img) == \A r \in 1 .. Len(img) : \A c \in 1 .. Len(img[r]) : img[r][c] >= 0 /\ img[r][c] <= One

\* C22 (as claimed): every scalar of every tensor passed to NN.Forward lies in
\* [0, 1], whether the request gave a flattened input or a 2-D image.
C22_RangeClamp ==
    /\ \A h \in InferPcs({"forward"}) : RangeOK(inf[h].img)
    /\ \A g \in BatchPcs({"forward"}) :
         bat[g].i < Len(bat[g].imgs) => RangeOK(bat[g].imgs[bat[g].i + 1])
    /\ \A t \in TaskPcs({"forward"}) : RangeOK(bl[t[1]].img)

\* A goroutine passes its gpuMu.Lock() and enters its Forward section.
EntersSection ==
    \/ \E h \in InferHandlers : inf[h].pc # "forward" /\ inf'[h].pc = "forward"
    \/ \E g \in BatchHandlers : bat[g].pc # "forward" /\ bat'[g].pc = "forward"
    \/ \E t \in BlastTasks : task[t].pc # "forward" /\ task'[t].pc = "forward"

\* C23 (as claimed): CleanupOptimizedGPU never runs while some request is
\* inside its Forward/ExtractOutput section, and no Forward section is
\* entered after the resource has been torn down.
C23_TeardownExclusion ==
    /\ [][(~shut.cleaned /\ shut'.cleaned) => InSection = 0]_vars
    /\ [][EntersSection => ~shut.cleaned]_vars

\* C24 (as claimed): with a gate capacity of at least one, every accepted
\* /infer, /infer-batch and /blast request eventually returns, and the
\* exclusive lock is only ever held by a goroutine that holds a permit.
C24_Termination ==
    (semCap >= 1) =>
        /\ \A h \in InferHandlers : (inf[h].pc = "acquire") ~> (inf[h].pc = "done")
        /\ \A g \in BatchHandlers : (bat[g].pc = "acquire") ~> (bat[g].pc = "done")
        /\ \A b \in BlastHandlers : (bl[b].pc = "wait") ~> (bl[b].pc = "done")
        /\ [](gpuMu => sem >= 1)

\* No request is in progress: every handler is idle or has answered, every
\* burst goroutine has finished, and none of them failed.
Quiescent ==
    /\ \A h \in InferHandlers : inf[h].pc \in {"idle", "rejected", "done"}
    /\ \A g \in BatchHandlers : bat[g].pc \in {"idle", "rejected", "done"}
    /\ \A b \in BlastHandlers : bl[b].pc \in {"idle", "rejected", "done"}
    /\ \A t \in BlastTasks : task[t].pc \in {"none", "done"}

\* C25: the inflight counter is never negative, and whenever no request is
\* in progress (all handlers and burst goroutines finished, none failed) the
\* counter is 0, no permit is held and gpuMu is unlocked.
C25_Quiescence ==
    /\ inflight >= 0
    /\ Quiescent => (inflight = 0 /\ sem = 0 /\ ~gpuMu)

\* All three endpoints have answered a request that went through the gate.
C25_Witness ==
    /\ Quiescent
    /\ \A h \in InferHandlers : inf[h].pc = "done"
    /\ \A g \in BatchHandlers : bat[g].pc = "done" /\ Len(bat[g].topIdx) >= 1
    /\ \A b \in BlastHandlers : bl[b].pc = "done" /\ bl[b].req.n >= 1

\* A goroutine other than the batch handlers enters its Forward section.
OtherEntersSection ==
    \/ \E h \in InferHandlers : inf[h].pc # "forward" /\ inf'[h].pc = "forward"
    \/ \E t \in BlastTasks : task[t].pc # "forward" /\ task'[t].pc = "forward"

\* C26: an /infer-batch request of M images holds one permit and gpuMu over
\* all M iterations (an iteration neither takes nor returns a permit and
\* finds and leaves gpuMu locked), no other goroutine enters its Forward
\* section while the batch is inside its loop, and slot i of the response
\* holds the result of image i.
C26_BatchAtomicity ==
    /\ [][\A g \in BatchHandlers :
            (bat[g].pc = "forward" /\ bat'[g].i # bat[g].i) => (sem' = sem /\ sem >= 1 /\ gpuMu /\ gpuMu')]_vars
    /\ [][\A g \in BatchHandlers : bat[g].pc = "forward" => ~OtherEntersSection]_vars
    /\ [](\A g \in BatchHandlers :
            bat[g].pc = "done" =>
                /\ Len(bat[g].topIdx) = Len(bat[g].imgs)
                /\ \A k \in 1 .. Len(bat[g].imgs) : bat[g].src[k] = k)

\* A batch between its first and its second image while /infer, holding a
\* permit of its own, waits at gpuMu.Lock().
C26_Witness ==
    \E g \in BatchHandlers :
        /\ bat[g].pc = "forward"
        /\ bat[g].i = 1
        /\ Len(bat[g].imgs) >= 2
        /\ \E h \in InferHandlers : inf[h].pc = "lock"

\* A record is pushed on session.results in this step.
SessionAppends == Len(ui'.session.results) > Len(ui.session.results)

\* C27 (as claimed): a record is appended to the session only while the
\* session is active; once the session carries a stopped_at marker no record
\* is appended to it; and the records already in the session are never
\* removed or reordered.
C27_SessionBounds ==
    /\ [][SessionAppends => (ui.sessionActive /\ ui.session.made)]_vars
    /\ [][SessionAppends => ~ui.session.stopped_at]_vars
    /\ [][/\ Len(ui'.session.results) >= Len(ui.session.results)
          /\ SubSeq(ui'.session.results, 1, Len(ui.session.results)) = ui.session.results]_vars

\* C28 (as claimed): in a client-mode run with parallel > 1, after a click on
\* the View button of the row labelled ix the modal shows the record whose
\* req_id is ix.
C28_RowLookup ==
    (ui.pc \in {"client", "done"} /\ ui.P > 1 /\ ui.clicked # NoRow /\ ui.clicked \in RowLabels)
        => ui.modal = ui.clicked


====
